---- MODULE Spec2Model ----
(***************************************************************************)
(* Deposit lease and settlement engine of tronbot_client.                  *)
(*                                                                         *)
(*   depositstack.py  DepositStack: add_deposit_request, process_next,     *)
(*                    receive_deposit                                      *)
(*   main.py          poll_recent_deposits, process_transfers              *)
(*   deposit_logs.py  DepositLogs.fetch_logs                               *)
(*   dbinit.py        insert_depositlogs, get_newdepositlogs,              *)
(*                    update_transferred_status_true/false,                *)
(*                    add_deposit_record, check_if_deposit_processed       *)
(*   transfer.py      Funds.USDT.transfer                                  *)
(*                                                                         *)
(* Time is counted in seconds.  Pool addresses are identified with their   *)
(* slot index (deposit_addresses[i] = i), clients with their chat_id.      *)
(***************************************************************************)
EXTENDS Integers, Sequences, FiniteSets

\* ------------------------------------------------------------------------
\* Program constants (config.py)
\* ------------------------------------------------------------------------
DEPOSIT_ADDR_VALIDITY == 150

DEPOSIT_ADDR_VALIDITY_BUFFER == 30

DEPOSIT_FEE == 10

\* transfer.py: max_retries of the receipt loop
max_retries == 30

\* ------------------------------------------------------------------------
\* Bounds of the model
\* ------------------------------------------------------------------------
\* number of pool addresses / queues (CONFIG.MAX_DEPOSIT_ADDRESSES)
MAX_DEPOSIT_ADDRESSES == 2

\* number of add_deposit_request calls in a run
MaxLeases == 3

\* number of distinct transaction hashes on the chain
MaxTx == 2

\* number of Transfer logs on the chain
MaxLogs == 2

\* number of deposits in a list handed to receive_deposit directly
MaxBatch == 1

\* leases and Transfer logs in a run of the whole pipeline (Spec)
MaxPipelineLeases == 2

MaxPipelineLogs == 1

\* number of clock advances in a run
MaxClockSteps == 2

\* number of process restarts in a run
MaxRestarts == 1

\* number of process_transfers tasks alive at the same time
MaxTasks == 1

\* number of process_transfers tasks alive at the same time in SpecOverlap
MaxOverlap == 2

\* number of sweep transactions broadcast in a run
MaxSweeps == 2

\* number of receipt requests made for one sweep transaction
MaxPolls == 31

\* number of rows of table depositaddresses in the scan specification
MaxScanAddresses == 6

\* ------------------------------------------------------------------------
\* Value sets
\* ------------------------------------------------------------------------
PoolSlots == 1..MAX_DEPOSIT_ADDRESSES

\* get_client_object() found no entry in active_chats: client is None
NoClient == 0

\* every request comes from a client of its own; the n-th request is made by
\* the client with chat_id n, or by nobody (NoClient)
Clients == 1..MaxLeases

TxIds == 1..MaxTx

\* the n-th Transfer log on the chain moves the amount AmountOf(n)
AmountOf(n) == 15 + 5 * n

\* the clock moves by one second or by a whole lease window
TimeDeltas == {1, DEPOSIT_ADDR_VALIDITY + DEPOSIT_ADDR_VALIDITY_BUFFER}

\* receipt.status of a mined sweep transaction: 1 or anything else
ReceiptStatuses == {"success", "reverted"}

VARIABLES
    now,          \* datetime.now()
    stacks,       \* DepositStack.stacks: one FIFO list of deposit requests per slot
    nleases,      \* deposit requests created so far (numbers the leases)
    chain,        \* Transfer logs on the chain
    depositlogs,  \* table depositlogs, in id order
    deposits,     \* table deposits: refids of processed deposits
    credits,      \* POST handle_deposit calls issued, in order: the payload of
                  \* each, the deposit request it was issued for, and whether
                  \* table deposits held the refid when the call was made
    confirms,     \* deposit-confirmation messages issued to clients, in order,
                  \* and whether the request was in its stack at that time
    timeouts,     \* timeout messages issued, in order: the lease and whether
                  \* Telegram delivered the message
    sweeps,       \* sweep transactions broadcast, in order, with their receipt
                  \* ("none" until get_transaction_receipt returns one)
    tasks,        \* process_transfers tasks alive: the deposits each has left,
                  \* the tx_hash (position in sweeps) whose receipt it is
                  \* waiting for, 0 if none, the retry_count of the receipt
                  \* loop and the receipt requests made for the tx_hash
    restarts,     \* process restarts so far
    depositaddresses,   \* table depositaddresses, as get_depositaddresses returns it
    deposit_addresses,  \* DepositStack.deposit_addresses; <<>> when the
                        \* constructor ended the process
    queued,       \* leases for which the "queued" message was issued
    tick_error,   \* the last process_next call ended in its except clause
                  \* ("Error occurred while processing next deposit request")
    cycle_episode, \* poll_recent_deposits: position in full_cycle, 0-based
    scan_errors,   \* the errors the last cycle of poll_recent_deposits met:
                   \* the batches whose balance request raised, the batches
                   \* whose log query raised, the logs handle_event raised for
    awaiting,     \* the calls of process_next and receive_deposit suspended at
                  \* an await, with the local variables each resumes with
    shutdown_event, \* main.py: shutdown_event.is_set()
    halted          \* the loops that have returned: "tick" for
                    \* poll_deposit_request_stack, "poll" for poll_recent_deposits

vars == <<now, stacks, nleases, chain, depositlogs, deposits,
          credits, confirms, timeouts, sweeps, tasks, restarts,
          depositaddresses, deposit_addresses, queued, tick_error,
          cycle_episode, scan_errors, shutdown_event, halted, awaiting>>

\* ------------------------------------------------------------------------
\* DepositStack.__init__
\* ------------------------------------------------------------------------
\* the table depositaddresses with n rows
Recordset(n) == [i \in 1..n |-> i]

\* a variant without the check of the pool size
DepositStackInitUnchecked(recordset) ==
    LET n == IF MAX_DEPOSIT_ADDRESSES > Len(recordset)
             THEN Len(recordset) ELSE MAX_DEPOSIT_ADDRESSES
    IN  [ deposit_addresses |-> [i \in 1..n |-> recordset[i]],
          stacks            |-> [i \in 1..n |-> <<>>] ]

\* MAX_DEPOSIT_ADDRESSES > len(recordset) raises ValueError and the handler
\* calls sys.exit(1): no attribute is set.  Otherwise the first
\* MAX_DEPOSIT_ADDRESSES addresses and as many empty stacks.
DepositStackInit(recordset) ==
    IF MAX_DEPOSIT_ADDRESSES > Len(recordset)
    THEN [ deposit_addresses |-> <<>>, stacks |-> <<>> ]
    ELSE [ deposit_addresses |-> [i \in PoolSlots |-> recordset[i]],
           stacks            |-> [i \in PoolSlots |-> <<>>] ]

\* the process is alive: the constructor returned
Running == Len(deposit_addresses) = MAX_DEPOSIT_ADDRESSES

\* ------------------------------------------------------------------------
\* Sequence helpers
\* ------------------------------------------------------------------------
\* list.pop(i), 1-based
RemoveAt(s, i) == SubSeq(s, 1, i - 1) \o SubSeq(s, i + 1, Len(s))

\* number of entries of s that satisfy Test
Count(s, Test(_)) == Cardinality({i \in 1..Len(s) : Test(s[i])})

\* ------------------------------------------------------------------------
\* DepositStack.add_deposit_request
\* ------------------------------------------------------------------------
\* a variant that takes the last index of minimal length
MinStackIndexLast(stks) ==
    CHOOSE i \in PoolSlots :
        /\ \A j \in PoolSlots : Len(stks[i]) <= Len(stks[j])
        /\ \A j \in PoolSlots : Len(stks[j]) = Len(stks[i]) => i >= j

\* min(range(K), key=lambda i: len(stacks[i])): the first index of minimal length
MinStackIndex(stks) ==
    CHOOSE i \in PoolSlots :
        /\ \A j \in PoolSlots : Len(stks[i]) <= Len(stks[j])
        /\ \A j \in PoolSlots : Len(stks[j]) = Len(stks[i]) => i <= j

\* a variant that starts the window at the end of the previous one
NewEtdNoGap(q, t) ==
    IF Len(q) > 0 THEN q[Len(q)].eta ELSE t

\* start of the deposit window of a new request for queue q at time t
NewEtd(q, t) ==
    IF Len(q) > 0 THEN q[Len(q)].eta + 1 ELSE t

\* a variant that counts the end of every window from the time of the call
NewEtaFromCall(q, t) ==
    t + DEPOSIT_ADDR_VALIDITY + DEPOSIT_ADDR_VALIDITY_BUFFER

\* end of the deposit window of a new request for queue q at time t
NewEta(q, t) ==
    IF Len(q) > 0
    THEN q[Len(q)].eta + DEPOSIT_ADDR_VALIDITY + DEPOSIT_ADDR_VALIDITY_BUFFER
    ELSE t + DEPOSIT_ADDR_VALIDITY + DEPOSIT_ADDR_VALIDITY_BUFFER

\* a variant that creates the request as already sent to the client
DepositRequestSent(id, client, idx, q, t) ==
    [ id              |-> id,
      client          |-> client,
      etd             |-> NewEtd(q, t),
      eta             |-> NewEta(q, t),
      deposit_address |-> deposit_addresses[idx],
      sent_to_client  |-> TRUE ]

\* the deposit_request dictionary
DepositRequest(id, client, idx, q, t) ==
    [ id              |-> id,
      client          |-> client,
      etd             |-> NewEtd(q, t),
      eta             |-> NewEta(q, t),
      deposit_address |-> deposit_addresses[idx],
      sent_to_client  |-> FALSE ]

\* send_message_to_client: reply_text inside try/except Exception
send_message_to_client(delivered) ==
    IF delivered THEN "sent" ELSE "logged"

\* The request is appended before the queued message is built.  The message
\* is built when the stack then holds more than one request; client.chat_id
\* raises for a client that is None, and the handler's except ends the call
\* with the request in the stack and no message issued.
add_deposit_request(client) ==
    /\ Running
    /\ nleases < MaxLeases
    /\ client \in {NoClient, nleases + 1}
    /\ LET idx == MinStackIndex(stacks)
           req == DepositRequest(nleases + 1, client, idx, stacks[idx], now)
       IN  /\ stacks' = [stacks EXCEPT ![idx] = Append(@, req)]
           /\ \E delivered \in BOOLEAN :
                 queued' = IF /\ Len(stacks'[idx]) > 1
                              /\ client # NoClient
                              /\ send_message_to_client(delivered) # "raised"
                           THEN queued \cup {req.id}
                           ELSE queued
    /\ nleases' = nleases + 1
    /\ UNCHANGED <<now, chain, depositlogs, deposits, credits,
                   confirms, timeouts, sweeps, tasks, restarts>>
    /\ UNCHANGED <<awaiting, shutdown_event, halted, cycle_episode, scan_errors, depositaddresses, deposit_addresses, tick_error>>

\* the value of a call that ended in the except clause
None == [ id |-> 0 ]

\* What add_deposit_request returns when called with the stacks stks at time
\* t for the lease numbered id: deposit_request, or None when client.chat_id
\* raised on the way to the queued message.
add_deposit_request_returns(stks, id, client, t) ==
    LET idx == MinStackIndex(stks)
        req == DepositRequest(id, client, idx, stks[idx], t)
    IN  IF Len(stks[idx]) + 1 > 1 /\ client = NoClient THEN None ELSE req

\* ------------------------------------------------------------------------
\* DepositStack.process_next
\* ------------------------------------------------------------------------
\* client_obj and client_obj.chat_id
ClientOk(element) == element.client # NoClient

\* a variant that lets the error of the Telegram call out
bot_message_uncaught(delivered) ==
    IF delivered THEN "sent" ELSE "raised"

\* bot_message: the Telegram call inside try/except Exception; an error is
\* logged and the method returns
bot_message(delivered) ==
    IF delivered THEN "sent" ELSE "logged"

\* The loop over the stacks from slot idx on; st = [stacks, timeouts, aborted].
\* failed: the slots whose client cannot be reached by Telegram in this tick.
\* A faulty head element raises at stack.pop[0] (a subscript on a method);
\* the handler's except ends the call with the stacks as they are, as it
\* does for any other exception.
RECURSIVE ProcessStacks(_, _, _, _)
ProcessStacks(idx, st, t, failed) ==
    IF idx > MAX_DEPOSIT_ADDRESSES THEN st
    ELSE LET stack == st.stacks[idx] IN
         IF Len(stack) = 0 THEN ProcessStacks(idx + 1, st, t, failed)
         ELSE LET element == stack[1] IN
              IF ~ClientOk(element) THEN [st EXCEPT !.aborted = TRUE]
              ELSE IF ~element.sent_to_client
              THEN IF element.etd <= t
                   THEN IF bot_message(idx \notin failed) = "raised"
                        THEN [st EXCEPT !.aborted = TRUE]
                        ELSE ProcessStacks(idx + 1,
                                 [st EXCEPT !.stacks[idx][1].sent_to_client = TRUE],
                                 t, failed)
                   ELSE ProcessStacks(idx + 1, st, t, failed)
              ELSE IF t < element.eta
                   THEN ProcessStacks(idx + 1, st, t, failed)
                   ELSE IF bot_message(idx \notin failed) = "raised"
                        THEN [st EXCEPT !.aborted = TRUE]
                        ELSE ProcessStacks(idx + 1,
                                 [st EXCEPT !.stacks[idx] = Tail(@),
                                            !.timeouts = Append(@,
                                                [ id        |-> element.id,
                                                  delivered |-> idx \notin failed ])],
                                 t, failed)

process_next ==
    /\ Running
    /\ \E failed \in SUBSET PoolSlots :
          LET st == ProcessStacks(1, [ stacks |-> stacks, timeouts |-> timeouts,
                                       aborted |-> FALSE ], now, failed)
          IN  /\ stacks' = st.stacks
              /\ timeouts' = st.timeouts
              /\ tick_error' = st.aborted
    /\ UNCHANGED <<now, nleases, chain, depositlogs, deposits,
                   credits, confirms, sweeps, tasks, restarts>>
    /\ UNCHANGED <<awaiting, shutdown_event, halted, cycle_episode, scan_errors, depositaddresses, deposit_addresses, queued>>

\* ------------------------------------------------------------------------
\* The chain: a Transfer log into a pool address
\* ------------------------------------------------------------------------
\* the requests of address a that are notified and whose window contains t
LiveLeases(a, t) ==
    {stacks[a][i].id : i \in {j \in 1..Len(stacks[a]) :
        /\ stacks[a][j].sent_to_client
        /\ stacks[a][j].etd <= t
        /\ t <= stacks[a][j].eta}}

\* One transaction can carry several Transfer logs (same hash, same block).
\* leased remembers which requests were live on the address when the log was
\* mined; the program never reads it.
ChainTransfer(tx, a) ==
    /\ Cardinality(chain) < MaxLogs
    /\ \A l \in chain : l.transaction_id = tx => l.block_timestamp = now
    /\ \A t \in TxIds : t < tx => \E l \in chain : l.transaction_id = t
    /\ chain' = chain \cup {[ log_index       |-> Cardinality(chain) + 1,
                              transaction_id  |-> tx,
                              to_address      |-> a,
                              block_timestamp |-> now,
                              leased          |-> LiveLeases(a, now),
                              amount          |-> AmountOf(Cardinality(chain) + 1) ]}
    /\ UNCHANGED <<now, stacks, nleases, depositlogs, deposits,
                   credits, confirms, timeouts, sweeps, tasks, restarts>>
    /\ UNCHANGED <<awaiting, shutdown_event, halted, cycle_episode, scan_errors, depositaddresses, deposit_addresses, queued, tick_error>>

\* ------------------------------------------------------------------------
\* dbinit.py: table depositlogs
\* ------------------------------------------------------------------------
\* INSERT ... SELECT unnest(...) WHERE transaction_id NOT IN (SELECT
\* transaction_id FROM depositlogs): the subquery sees the table as it was
\* before the statement, and the column has no unique constraint.
insert_depositlogs(table, logs) ==
    LET stored == {table[i].transaction_id : i \in 1..Len(table)}
        IsNew(log) == log.transaction_id \notin stored
        Row(log) == [ transaction_id  |-> log.transaction_id,
                      to_address      |-> log.to_address,
                      block_timestamp |-> log.block_timestamp,
                      amount          |-> log.amount,
                      transferred     |-> FALSE ]
        new == SelectSeq(logs, IsNew)
    IN  table \o [i \in 1..Len(new) |-> Row(new[i])]

\* SELECT ... FROM depositlogs WHERE transferred = FALSE
get_newdepositlogs(table) ==
    LET Pending(row) == ~row.transferred
    IN  SelectSeq(table, Pending)

\* UPDATE depositlogs SET transferred = flag WHERE transaction_id = tx
update_transferred_status(table, tx, flag) ==
    [i \in 1..Len(table) |->
        IF table[i].transaction_id = tx
        THEN [table[i] EXCEPT !.transferred = flag]
        ELSE table[i]]

\* ------------------------------------------------------------------------
\* DepositLogs.fetch_logs
\* ------------------------------------------------------------------------
GET_BALANCE_BATCH_SIZE == 5

\* the elements of a set of numbers in increasing order
RECURSIVE SortedSeq(_)
SortedSeq(S) ==
    IF S = {} THEN <<>>
    ELSE LET m == CHOOSE x \in S : \A y \in S : x <= y
         IN  <<m>> \o SortedSeq(S \ {m})

\* eth.get_logs for one batch of addresses: the logs in chain order
BatchLogs(logs, batch) ==
    LET idxs == SortedSeq({l.log_index : l \in {x \in logs : x.to_address \in batch}})
    IN  [i \in 1..Len(idxs) |-> CHOOSE l \in logs : l.log_index = idxs[i]]

\* the last position of the batch that starts at position pos of addrs
BatchEnd(addrs, pos) ==
    IF pos + GET_BALANCE_BATCH_SIZE - 1 < Len(addrs)
    THEN pos + GET_BALANCE_BATCH_SIZE - 1 ELSE Len(addrs)

\* the number of the batch that starts at position pos
BatchNo(pos) == (pos - 1) \div GET_BALANCE_BATCH_SIZE + 1

\* The loop over the batches from position pos on.  result accumulates over
\* the batches and is handed to insert_depositlogs after every batch that
\* returned logs.  netFail: the batches whose get_logs raises; the except
\* prints the error and the batch has no logs.  decodeFail: the logs for which
\* handle_event raises; that call is outside the try, the exception leaves
\* fetch_logs with the table as the batches before left it.
RECURSIVE FetchBatches(_, _, _, _, _, _, _)
FetchBatches(addrs, pos, result, table, logs, netFail, decodeFail) ==
    IF pos > Len(addrs) THEN [ table |-> table, raised |-> FALSE ]
    ELSE LET last == BatchEnd(addrs, pos)
             batch == {addrs[i] : i \in pos..last}
             found == IF BatchNo(pos) \in netFail THEN <<>>
                      ELSE BatchLogs(logs, batch)
         IN  IF \E i \in 1..Len(found) : found[i].log_index \in decodeFail
             THEN [ table |-> table, raised |-> TRUE ]
             ELSE IF Len(found) > 0
             THEN FetchBatches(addrs, last + 1, result \o found,
                               insert_depositlogs(table, result \o found), logs,
                               netFail, decodeFail)
             ELSE FetchBatches(addrs, last + 1, result, table, logs,
                               netFail, decodeFail)

\* wallets: the addresses handed to DepositLogs (those reported with a balance)
fetch_logs(wallets, table, logs, netFail, decodeFail) ==
    FetchBatches(SortedSeq(wallets), 1, <<>>, table, logs, netFail, decodeFail)

\* ------------------------------------------------------------------------
\* DepositStack.receive_deposit
\* ------------------------------------------------------------------------
\* the condition under which a request takes a deposit
Matches(request, deposit_address, credit_time) ==
    /\ request.deposit_address = deposit_address
    /\ request.sent_to_client
    /\ request.etd <= credit_time
    /\ request.eta >= credit_time

\* enumerate(stack) up to the break: the first matching index, 0 if none
MatchIndex(stack, deposit_address, credit_time) ==
    LET M == {i \in 1..Len(stack) : Matches(stack[i], deposit_address, credit_time)}
    IN  IF M = {} THEN 0 ELSE CHOOSE i \in M : \A j \in M : i <= j

\* a variant that leaves table deposits as it is
add_deposit_record_skipped(table, refid) ==
    table

\* add_deposit_record: INSERT INTO deposits; check_if_deposit_processed
\* counts the rows with the refid
add_deposit_record(table, refid) ==
    table \cup {refid}

\* the handle_deposit payload
Payload(request, deposit) ==
    [ refid           |-> deposit.refid,
      chat_id         |-> request.client,
      amount          |-> deposit.amount,
      deposit_address |-> deposit.deposit_address,
      deposit_fee     |-> DEPOSIT_FEE ]

\* "for stack in self.stacks" for one deposit, from slot idx on.
\* st = [stacks, deposits, credits, confirms, aborted]; aborted is set when an
\* exception leaves the handler.  statsFail: get_total_deposits_client raises.
\* creditFail: the POST handle_deposit raises or answers with an HTTP error;
\* both are caught and logged next to the call.
RECURSIVE MatchStacks(_, _, _, _, _, _)
MatchStacks(idx, deposit, st, credit_time, statsFail, creditFail) ==
    IF st.aborted \/ idx > MAX_DEPOSIT_ADDRESSES THEN st
    ELSE LET i == MatchIndex(st.stacks[idx], deposit.deposit_address, credit_time) IN
         IF i = 0 THEN MatchStacks(idx + 1, deposit, st, credit_time,
                                   statsFail, creditFail)
         ELSE LET request == st.stacks[idx][i] IN
              IF ~ClientOk(request) \/ deposit.refid \in st.deposits
              THEN [st EXCEPT !.aborted = TRUE]
              ELSE LET recorded == [st EXCEPT !.deposits =
                                       add_deposit_record(@, deposit.refid)]
                       credited == [recorded EXCEPT
                           !.credits = Append(@,
                               [ payload   |-> Payload(request, deposit),
                                 request   |-> request,
                                 processed |-> deposit.refid \in recorded.deposits,
                                 ok        |-> ~creditFail ])]
                       confirmed == [credited EXCEPT
                           !.confirms = Append(@,
                               [ refid    |-> deposit.refid,
                                 chat_id  |-> request.client,
                                 in_queue |-> request \in
                                     {credited.stacks[idx][j] :
                                         j \in 1..Len(credited.stacks[idx])} ])]
                   IN  IF statsFail
                       THEN [credited EXCEPT !.aborted = TRUE]
                       ELSE MatchStacks(idx + 1, deposit,
                                [confirmed EXCEPT !.stacks[idx] = RemoveAt(@, i)],
                                credit_time, statsFail, creditFail)

\* no call made for the deposits of a list fails
NoFailure == [ stats |-> 0, credit |-> 0 ]

\* the statistics lookup fails at one of the first n deposits of a list, or
\* at none
StatsFailures(n) == {[ stats |-> i, credit |-> 0 ] : i \in 0..n}

\* the statistics lookup and the credit call each fail at one of the first n
\* deposits of a list, or at none
Failures(n) == [ stats : 0..n, credit : 0..n ]

FailureWithin(failAt, n) == failAt.stats <= n /\ failAt.credit <= n

\* "for deposit in deposits" from position n on; failAt holds the position of
\* the deposit at which the statistics lookup raises and that of the deposit
\* at which the credit call fails (0: it never does).
RECURSIVE ReceiveLoop(_, _, _, _, _)
ReceiveLoop(response_data, n, st, credit_time, failAt) ==
    IF st.aborted \/ n > Len(response_data) THEN st
    ELSE IF response_data[n].refid \in st.deposits
         THEN ReceiveLoop(response_data, n + 1, st, credit_time, failAt)
         ELSE ReceiveLoop(response_data, n + 1,
                  MatchStacks(1, response_data[n], st, credit_time,
                              failAt.stats = n, failAt.credit = n),
                  credit_time, failAt)

receive_deposit(response_data, st, credit_time, failAt) ==
    ReceiveLoop(response_data, 1, st, credit_time, failAt)

\* the effect of one receive_deposit call on the engine
Reconcile(response_data, failAt) ==
    LET st == receive_deposit(response_data,
                  [ stacks |-> stacks, deposits |-> deposits, credits |-> credits,
                    confirms |-> confirms, aborted |-> FALSE ],
                  now, failAt)
    IN  /\ stacks' = st.stacks
        /\ deposits' = st.deposits
        /\ credits' = st.credits
        /\ confirms' = st.confirms

\* receive_deposit called with a list of pending deposits of any content
ReceiveDeposit(response_data, failAt) ==
    /\ FailureWithin(failAt, Len(response_data))
    /\ Reconcile(response_data, failAt)
    /\ UNCHANGED <<now, nleases, chain, depositlogs, timeouts, sweeps, tasks,
                   restarts>>
    /\ UNCHANGED <<awaiting, shutdown_event, halted, cycle_episode, scan_errors, depositaddresses, deposit_addresses, queued, tick_error>>

\* ------------------------------------------------------------------------
\* process_next and receive_deposit, await by await
\* ------------------------------------------------------------------------
\* poll_deposit_request_stack and poll_recent_deposits run beside each other
\* (main.py: run_in_executor); a coroutine leaves the processor at an await.
\* process_next awaits bot_message between "element = stack[0]" and
\* stack.pop(0); receive_deposit awaits bot.send_message between the match
\* at index i and stack.pop(i).
Idle == [ pc |-> "idle" ]

NoneSuspended == [ tick |-> Idle, receive |-> Idle ]

\* process_next from slot idx on, up to its next await: the frame it is
\* suspended with, or Idle with the flag of the except clause.  Nothing is
\* written before the await.  (The reminder message changes nothing and is
\* left out.)
RECURSIVE TickAdvance(_, _, _)
TickAdvance(idx, stks, t) ==
    IF idx > MAX_DEPOSIT_ADDRESSES THEN [ frame |-> Idle, aborted |-> FALSE ]
    ELSE IF Len(stks[idx]) = 0 THEN TickAdvance(idx + 1, stks, t)
    ELSE LET element == stks[idx][1] IN
         IF ~ClientOk(element) THEN [ frame |-> Idle, aborted |-> TRUE ]
         ELSE IF ~element.sent_to_client
         THEN IF element.etd <= t
              THEN [ frame   |-> [ pc |-> "notify", idx |-> idx,
                                   element |-> element ],
                     aborted |-> FALSE ]
              ELSE TickAdvance(idx + 1, stks, t)
         ELSE IF t < element.eta
              THEN TickAdvance(idx + 1, stks, t)
              ELSE [ frame   |-> [ pc |-> "timeout", idx |-> idx,
                                   element |-> element ],
                     aborted |-> FALSE ]

\* process_next is called and runs to its first await
process_next_call ==
    /\ Running
    /\ awaiting.tick = Idle
    /\ LET f == TickAdvance(1, stacks, now)
       IN  /\ awaiting' = [awaiting EXCEPT !.tick = f.frame]
           /\ tick_error' = f.aborted
    /\ UNCHANGED <<now, stacks, nleases, chain, depositlogs, deposits, credits,
                   confirms, timeouts, sweeps, tasks, restarts>>
    /\ UNCHANGED <<shutdown_event, halted, cycle_episode, scan_errors,
                   depositaddresses, deposit_addresses, queued>>

\* element['sent_to_client'] = True: element is the object read before the
\* await, wherever it is by now
MarkSent(stack, element) ==
    [j \in 1..Len(stack) |->
        IF stack[j].id = element.id
        THEN [stack[j] EXCEPT !.sent_to_client = TRUE]
        ELSE stack[j]]

\* process_next resumes after bot_message and runs to its next await.
\* stack.pop(0) removes the element that is first by now and raises on an
\* empty list.
process_next_resume(delivered) ==
    /\ awaiting.tick # Idle
    /\ LET frame == awaiting.tick
           stack == stacks[frame.idx]
           after == IF frame.pc = "notify"
                    THEN [ stacks   |-> [stacks EXCEPT ![frame.idx] =
                                            MarkSent(@, frame.element)],
                           timeouts |-> timeouts,
                           aborted  |-> FALSE ]
                    ELSE [ stacks   |-> IF Len(stack) = 0 THEN stacks
                                        ELSE [stacks EXCEPT ![frame.idx] = Tail(@)],
                           timeouts |-> Append(timeouts,
                                            [ id        |-> frame.element.id,
                                              delivered |-> delivered ]),
                           aborted  |-> Len(stack) = 0 ]
           f == IF after.aborted THEN [ frame |-> Idle, aborted |-> TRUE ]
                ELSE TickAdvance(frame.idx + 1, after.stacks, now)
       IN  /\ stacks' = after.stacks
           /\ timeouts' = after.timeouts
           /\ awaiting' = [awaiting EXCEPT !.tick = f.frame]
           /\ tick_error' = f.aborted
    /\ UNCHANGED <<now, nleases, chain, depositlogs, deposits, credits,
                   confirms, sweeps, tasks, restarts>>
    /\ UNCHANGED <<shutdown_event, halted, cycle_episode, scan_errors,
                   depositaddresses, deposit_addresses, queued>>

\* receive_deposit from deposit n and slot idx on, up to its next await:
\* st = [deposits, credits], and the frame the call is suspended with.  The
\* deposit is recorded and the credit call made before the await.
\* credit_time is read anew, as t, for each deposit.
RECURSIVE ReceiveAdvance(_, _, _, _, _, _, _)
ReceiveAdvance(response_data, n, idx, stks, st, credit_time, t) ==
    IF n > Len(response_data) THEN [ st |-> st, frame |-> Idle ]
    ELSE IF idx > MAX_DEPOSIT_ADDRESSES
    THEN ReceiveAdvance(response_data, n + 1, 1, stks, st, t, t)
    ELSE IF idx = 1 /\ response_data[n].refid \in st.deposits
    THEN ReceiveAdvance(response_data, n + 1, 1, stks, st, t, t)
    ELSE LET deposit == response_data[n]
             i == MatchIndex(stks[idx], deposit.deposit_address, credit_time)
         IN  IF i = 0
             THEN ReceiveAdvance(response_data, n, idx + 1, stks, st,
                                 credit_time, t)
             ELSE LET request == stks[idx][i] IN
                  IF ~ClientOk(request) \/ deposit.refid \in st.deposits
                  THEN [ st |-> st, frame |-> Idle ]
                  ELSE [ st    |-> [ deposits |-> add_deposit_record(st.deposits,
                                                                       deposit.refid),
                                     credits  |-> Append(st.credits,
                                         [ payload   |-> Payload(request, deposit),
                                           request   |-> request,
                                           processed |-> TRUE,
                                           ok        |-> TRUE ]) ],
                         frame |-> [ pc |-> "confirm",
                                     response_data |-> response_data,
                                     n |-> n, idx |-> idx, i |-> i,
                                     request |-> request,
                                     credit_time |-> credit_time ] ]

\* receive_deposit is called and runs to its first await
receive_deposit_call(response_data) ==
    /\ Running
    /\ awaiting.receive = Idle
    /\ LET r == ReceiveAdvance(response_data, 1, 1, stacks,
                    [ deposits |-> deposits, credits |-> credits ], now, now)
       IN  /\ deposits' = r.st.deposits
           /\ credits' = r.st.credits
           /\ awaiting' = [awaiting EXCEPT !.receive = r.frame]
    /\ UNCHANGED <<now, stacks, nleases, chain, depositlogs, confirms,
                   timeouts, sweeps, tasks, restarts>>
    /\ UNCHANGED <<shutdown_event, halted, cycle_episode, scan_errors,
                   depositaddresses, deposit_addresses, queued, tick_error>>

\* receive_deposit resumes after the confirmation message and runs to its
\* next await.  stack.pop(i) removes the element that is at index i by now
\* and raises when the list is shorter; the except clause ends the call.
receive_deposit_resume ==
    /\ awaiting.receive # Idle
    /\ LET frame == awaiting.receive
           stack == stacks[frame.idx]
           popped == [stacks EXCEPT ![frame.idx] = RemoveAt(@, frame.i)]
           r == IF frame.i > Len(stack)
                THEN [ st    |-> [ deposits |-> deposits, credits |-> credits ],
                       frame |-> Idle ]
                ELSE ReceiveAdvance(frame.response_data, frame.n, frame.idx + 1,
                         popped, [ deposits |-> deposits, credits |-> credits ],
                         frame.credit_time, now)
       IN  /\ confirms' = Append(confirms,
                             [ refid    |-> frame.response_data[frame.n].refid,
                               chat_id  |-> frame.request.client,
                               in_queue |-> frame.request \in
                                   {stack[j] : j \in 1..Len(stack)} ])
           /\ stacks' = IF frame.i > Len(stack) THEN stacks ELSE popped
           /\ deposits' = r.st.deposits
           /\ credits' = r.st.credits
           /\ awaiting' = [awaiting EXCEPT !.receive = r.frame]
    /\ UNCHANGED <<now, nleases, chain, depositlogs, timeouts, sweeps, tasks,
                   restarts>>
    /\ UNCHANGED <<shutdown_event, halted, cycle_episode, scan_errors,
                   depositaddresses, deposit_addresses, queued, tick_error>>

\* ------------------------------------------------------------------------
\* main.py: poll_recent_deposits, one cycle
\* ------------------------------------------------------------------------
\* the task asyncio.create_task(process_transfers(response_data)) starts,
\* before the first transfer() call
Task(response_data) ==
    [ deposits |-> response_data, tx_hash |-> 0, retry_count |-> 0, polls |-> 0,
      started |-> FALSE ]

\* The cycle goes on after "await asyncio.sleep(interval_sec)": by then every
\* task created before has run up to its first "await asyncio.sleep(2)", and
\* no task is inside transfer().
TasksAsleep ==
    \A k \in 1..Len(tasks) : tasks[k].tx_hash = 0 /\ tasks[k].started

\* the row built for every pending depositlog
ResponseRow(row) ==
    [ deposit_address       |-> row.to_address,
      amount                |-> row.amount,
      refid                 |-> row.transaction_id,
      credit_time_timestamp |-> row.block_timestamp ]

\* Scan, ingest, fetch the pending rows, start the transfer task and
\* reconcile.  wallets: the pool addresses reported with a balance by the
\* batches queried in this cycle, whatever the episode of the cycle is; the
\* episode itself is followed by ScanCycle.  cap: the tasks that may be alive.
PollCycleUpTo(wallets, failAt, cap) ==
    LET table == fetch_logs(wallets, depositlogs, chain, {}, {}).table
        pending == get_newdepositlogs(table)
        response_data == [i \in 1..Len(pending) |-> ResponseRow(pending[i])]
    IN  /\ FailureWithin(failAt, Len(pending))
        /\ Len(pending) > 0 => Len(tasks) < cap
        /\ TasksAsleep
        /\ depositlogs' = table
        /\ tasks' = IF Len(pending) > 0
                    THEN Append(tasks, Task(response_data))
                    ELSE tasks
        /\ Reconcile(response_data, failAt)
        /\ UNCHANGED <<now, nleases, chain, timeouts, sweeps, restarts>>
        /\ UNCHANGED <<awaiting, shutdown_event, halted, cycle_episode, scan_errors, depositaddresses, deposit_addresses, queued, tick_error>>

PollCycle(wallets, failAt) == PollCycleUpTo(wallets, failAt, MaxTasks)

\* ------------------------------------------------------------------------
\* ethapi.py: EthAPI.get_recent_deposits; main.py: poll_recent_deposits with
\* its episodes
\* ------------------------------------------------------------------------
\* number_of_batches of the episodes of full_cycle
full_cycle == <<1, 1, 2, 1, 1, 5>>

\* the address list cut into rows of GET_BALANCE_BATCH_SIZE, from position pos
RECURSIVE Batches(_, _)
Batches(addrs, pos) ==
    IF pos > Len(addrs) THEN <<>>
    ELSE <<SubSeq(addrs, pos, BatchEnd(addrs, pos))>>
         \o Batches(addrs, BatchEnd(addrs, pos) + 1)

\* batches[: max_batches]
QueriedBatches(addrs, number_of_batches) ==
    LET batches == Batches(addrs, 1)
        max_batches == IF number_of_batches > Len(batches)
                       THEN Len(batches) ELSE number_of_batches
    IN  SubSeq(batches, 1, max_batches)

\* the sum of the amounts of a set of Transfer logs
RECURSIVE SumOfLogs(_)
SumOfLogs(S) ==
    IF S = {} THEN 0
    ELSE LET l == CHOOSE x \in S : TRUE IN l.amount + SumOfLogs(S \ {l})

\* the sum of the amounts of the first n sweeps that left address a
RECURSIVE SumOfSweeps(_, _)
SumOfSweeps(a, n) ==
    IF n = 0 THEN 0
    ELSE SumOfSweeps(a, n - 1)
         + (IF sweeps[n].from_address = a /\ sweeps[n].receipt = "success"
            THEN sweeps[n].amount ELSE 0)

\* balanceOf(a) on the chain
balance(a) ==
    SumOfLogs({l \in chain : l.to_address = a}) - SumOfSweeps(a, Len(sweeps))

\* the addresses for which get_recent_deposits returns a balance: those of
\* the first number_of_batches batches, without the batches whose request
\* raises RequestException (balanceFail)
get_recent_deposits(addrs, number_of_batches, balanceFail) ==
    LET batches == QueriedBatches(addrs, number_of_batches)
    IN  UNION {{batches[b][i] : i \in 1..Len(batches[b])} :
                  b \in (1..Len(batches)) \ balanceFail}

\* active_deposits of a cycle in the present episode
ActiveDeposits(balanceFail) ==
    {a \in get_recent_deposits(depositaddresses, full_cycle[cycle_episode + 1],
                               balanceFail) : balance(a) > 0}

\* no request of the cycle failed
NoScanErrors == [ balance |-> {}, logs |-> {}, decode |-> {} ]

\* One cycle of poll_recent_deposits.  An exception of fetch_logs is caught
\* by the except of the loop: nothing of the cycle after fetch_logs runs.
\* balanceFail and netFail name batches the cycle has, decodeFail logs.
ScanCycle(balanceFail, netFail, decodeFail, failAt) ==
    LET fetched == fetch_logs(ActiveDeposits(balanceFail), depositlogs, chain,
                              netFail, decodeFail)
        pending == get_newdepositlogs(fetched.table)
        response_data == [i \in 1..Len(pending) |-> ResponseRow(pending[i])]
        started == ~fetched.raised /\ Len(pending) > 0
    IN  /\ FailureWithin(failAt, Len(pending))
        /\ started => Len(tasks) < MaxTasks
        /\ TasksAsleep
        /\ balanceFail \subseteq
              1..Len(QueriedBatches(depositaddresses, full_cycle[cycle_episode + 1]))
        /\ netFail \subseteq
              1..Len(Batches(SortedSeq(ActiveDeposits(balanceFail)), 1))
        /\ decodeFail # {} => fetched.raised
        /\ cycle_episode' = (cycle_episode + 1) % Len(full_cycle)
        /\ scan_errors' = [ balance |-> balanceFail, logs |-> netFail,
                            decode |-> decodeFail ]
        /\ depositlogs' = fetched.table
        /\ tasks' = IF started THEN Append(tasks, Task(response_data)) ELSE tasks
        /\ IF fetched.raised
           THEN UNCHANGED <<stacks, deposits, credits, confirms>>
           ELSE Reconcile(response_data, failAt)
        /\ UNCHANGED <<now, nleases, chain, timeouts, sweeps, restarts>>
        /\ UNCHANGED <<depositaddresses, deposit_addresses, queued, tick_error>>
        /\ UNCHANGED <<awaiting, shutdown_event, halted>>

\* ------------------------------------------------------------------------
\* main.py: process_transfers, one deposit; transfer.py: Funds.USDT.transfer
\* ------------------------------------------------------------------------
\* task k after transfer() returned for its first deposit: the sleep, then the
\* next deposit; the task ends with its last one
NextDeposit(tsks, k) ==
    IF Len(tsks[k].deposits) = 1 THEN RemoveAt(tsks, k)
    ELSE [tsks EXCEPT ![k] = [Task(Tail(@.deposits)) EXCEPT !.started = TRUE]]

\* a variant that marks the row before the outcome of the broadcast is known
MarkBroadcastAlways(table, refid, accepted) ==
    update_transferred_status(table, refid, TRUE)

\* an error of send_raw_transaction makes transfer() return; otherwise
\* update_transferred_status_true is called before the receipt loop
MarkBroadcast(table, refid, accepted) ==
    IF accepted THEN update_transferred_status(table, refid, TRUE) ELSE table

\* a variant that leaves the row as it is whatever the receipt says
MarkReceiptKeep(table, refid, status) ==
    table

\* receipt.status == 1 leaves the row; anything else calls
\* update_transferred_status_false
MarkReceipt(table, refid, status) ==
    IF status = "success" THEN table
    ELSE update_transferred_status(table, refid, FALSE)

\* transfer() up to the broadcast.  An error of send_raw_transaction is
\* caught and transfer() returns; otherwise the row is marked transferred
\* and the receipt loop starts.  transfer() does not yield: while a task
\* waits for a receipt no other task of the loop runs.
send_raw_transaction(k, accepted) ==
    /\ k \in 1..Len(tasks)
    /\ \A j \in 1..Len(tasks) : tasks[j].tx_hash = 0
    /\ LET deposit == tasks[k].deposits[1] IN
        IF accepted
        THEN /\ Len(sweeps) < MaxSweeps
             /\ sweeps' = Append(sweeps, [ refid        |-> deposit.refid,
                                           from_address |-> deposit.deposit_address,
                                           amount       |-> deposit.amount,
                                           receipt      |-> "none" ])
             /\ depositlogs' = MarkBroadcast(depositlogs, deposit.refid, accepted)
             /\ tasks' = [tasks EXCEPT ![k].tx_hash = Len(sweeps) + 1,
                                       ![k].retry_count = 0,
                                       ![k].polls = 0]
        ELSE /\ tasks' = NextDeposit(tasks, k)
             /\ depositlogs' = MarkBroadcast(depositlogs, deposit.refid, accepted)
             /\ UNCHANGED sweeps
    /\ UNCHANGED <<now, stacks, nleases, chain, deposits, credits,
                   confirms, timeouts, restarts>>
    /\ UNCHANGED <<awaiting, shutdown_event, halted, cycle_episode, scan_errors, depositaddresses, deposit_addresses, queued, tick_error>>

\* One pass of the receipt loop in which get_transaction_receipt returns None
\* or raises: the loop sleeps and tests its condition again.  No statement of
\* the loop assigns retry_count.
receipt_not_found(k) ==
    /\ k \in 1..Len(tasks)
    /\ tasks[k].tx_hash # 0
    /\ tasks[k].retry_count < max_retries
    /\ tasks[k].polls < MaxPolls
    /\ tasks' = [tasks EXCEPT ![k].polls = @ + 1]
    /\ UNCHANGED <<now, stacks, nleases, chain, depositlogs, deposits, credits,
                   confirms, timeouts, sweeps, restarts>>
    /\ UNCHANGED <<awaiting, shutdown_event, halted, cycle_episode, scan_errors, depositaddresses, deposit_addresses, queued, tick_error>>

\* the receipt loop of transfer() obtains the receipt of its tx_hash; a status
\* other than 1 puts the row back to not transferred
get_transaction_receipt(k, status) ==
    /\ k \in 1..Len(tasks)
    /\ tasks[k].tx_hash # 0
    /\ tasks[k].retry_count < max_retries
    /\ sweeps' = [sweeps EXCEPT ![tasks[k].tx_hash].receipt = status]
    /\ depositlogs' = MarkReceipt(depositlogs, tasks[k].deposits[1].refid, status)
    /\ tasks' = NextDeposit(tasks, k)
    /\ UNCHANGED <<now, stacks, nleases, chain, deposits, credits,
                   confirms, timeouts, restarts>>
    /\ UNCHANGED <<awaiting, shutdown_event, halted, cycle_episode, scan_errors, depositaddresses, deposit_addresses, queued, tick_error>>

\* ------------------------------------------------------------------------
\* Process restart: DepositStack.__init__ builds empty stacks; tasks are gone
\* ------------------------------------------------------------------------
Restart ==
    /\ restarts < MaxRestarts
    /\ restarts' = restarts + 1
    /\ stacks' = DepositStackInit(depositaddresses).stacks
    /\ deposit_addresses' = DepositStackInit(depositaddresses).deposit_addresses
    /\ tasks' = <<>>
    /\ UNCHANGED <<now, nleases, chain, depositlogs, deposits,
                   credits, confirms, timeouts, sweeps>>
    /\ tick_error' = FALSE
    /\ cycle_episode' = 0
    /\ shutdown_event' = FALSE
    /\ halted' = {}
    /\ awaiting' = NoneSuspended
    /\ UNCHANGED <<scan_errors, depositaddresses, queued>>

\* ------------------------------------------------------------------------
\* main.py: shutdown and the two loops
\* ------------------------------------------------------------------------
\* shutdown(): shutdown_event.set()
shutdown ==
    /\ ~shutdown_event
    /\ shutdown_event' = TRUE
    /\ UNCHANGED <<now, stacks, nleases, chain, depositlogs, deposits, credits,
                   confirms, timeouts, sweeps, tasks, restarts>>
    /\ UNCHANGED <<awaiting, halted, cycle_episode, scan_errors, depositaddresses,
                   deposit_addresses, queued, tick_error>>

\* one pass of "while not shutdown_event.is_set()" of the tick loop
poll_deposit_request_stack ==
    /\ "tick" \notin halted
    /\ ~shutdown_event
    /\ process_next

\* one pass of "while not shutdown_event.is_set()" of the scan loop
poll_recent_deposits(wallets, failAt) ==
    /\ "poll" \notin halted
    /\ ~shutdown_event
    /\ PollCycle(wallets, failAt)

\* the tick loop finds the event set and returns
TickHalt ==
    /\ "tick" \notin halted
    /\ shutdown_event
    /\ halted' = halted \cup {"tick"}
    /\ UNCHANGED <<now, stacks, nleases, chain, depositlogs, deposits, credits,
                   confirms, timeouts, sweeps, tasks, restarts>>
    /\ UNCHANGED <<awaiting, shutdown_event, cycle_episode, scan_errors, depositaddresses,
                   deposit_addresses, queued, tick_error>>

\* The scan loop finds the event set and returns; run_until_complete returns
\* and the wrapper closes the event loop, which ends the tasks that have not
\* finished.  The coroutine runs only while no transfer() call holds the
\* thread.
PollHalt ==
    /\ "poll" \notin halted
    /\ shutdown_event
    /\ \A k \in 1..Len(tasks) : tasks[k].tx_hash = 0
    /\ halted' = halted \cup {"poll"}
    /\ tasks' = <<>>
    /\ UNCHANGED <<now, stacks, nleases, chain, depositlogs, deposits, credits,
                   confirms, timeouts, sweeps, restarts>>
    /\ UNCHANGED <<awaiting, shutdown_event, cycle_episode, scan_errors, depositaddresses,
                   deposit_addresses, queued, tick_error>>

\* ------------------------------------------------------------------------
\* The clock
\* ------------------------------------------------------------------------
\* the number of advances that led to time t
ClockSteps(t) ==
    (t \div (DEPOSIT_ADDR_VALIDITY + DEPOSIT_ADDR_VALIDITY_BUFFER))
    + (t % (DEPOSIT_ADDR_VALIDITY + DEPOSIT_ADDR_VALIDITY_BUFFER))

AdvanceTime(d) ==
    /\ ClockSteps(now) < MaxClockSteps
    /\ now' = now + d
    /\ UNCHANGED <<stacks, nleases, chain, depositlogs, deposits, credits,
                   confirms, timeouts, sweeps, tasks, restarts>>
    /\ UNCHANGED <<awaiting, shutdown_event, halted, cycle_episode, scan_errors, depositaddresses, deposit_addresses, queued, tick_error>>

\* ------------------------------------------------------------------------
\* Specification
\* ------------------------------------------------------------------------
\* the state after construction with a table of n deposit addresses
Constructed(n) ==
    /\ now = 0
    /\ depositaddresses = Recordset(n)
    /\ deposit_addresses = DepositStackInit(Recordset(n)).deposit_addresses
    /\ stacks = DepositStackInit(Recordset(n)).stacks
    /\ queued = {}
    /\ tick_error = FALSE
    /\ cycle_episode = 0
    /\ scan_errors = NoScanErrors
    /\ shutdown_event = FALSE
    /\ awaiting = NoneSuspended
    /\ halted = {}
    /\ nleases = 0
    /\ chain = {}
    /\ depositlogs = <<>>
    /\ deposits = {}
    /\ credits = <<>>
    /\ confirms = <<>>
    /\ timeouts = <<>>
    /\ sweeps = <<>>
    /\ tasks = <<>>
    /\ restarts = 0

\* the table holds as many addresses as the pool needs
Init == Constructed(MAX_DEPOSIT_ADDRESSES)

\* the table holds fewer, as many or more addresses than the pool needs
AvailableCounts == (MAX_DEPOSIT_ADDRESSES - 1)..(MAX_DEPOSIT_ADDRESSES + 1)

InitStartup == \E n \in AvailableCounts : Constructed(n)

\* the deposit lists handed to receive_deposit in SpecLease
DepositRows ==
    { [ deposit_address       |-> a,
        amount                |-> AmountOf(tx),
        refid                 |-> tx,
        credit_time_timestamp |-> now ] : a \in PoolSlots, tx \in TxIds }

DepositLists ==
    UNION { [1..n -> DepositRows] : n \in 1..MaxBatch }

\* the whole pipeline
Next ==
    \/ \E c \in Clients \cup {NoClient} :
          nleases < MaxPipelineLeases /\ add_deposit_request(c)
    \/ process_next
    \/ \E d \in TimeDeltas : AdvanceTime(d)
    \/ \E tx \in TxIds, a \in PoolSlots :
          Cardinality(chain) < MaxPipelineLogs /\ ChainTransfer(tx, a)
    \/ \E w \in SUBSET PoolSlots, f \in StatsFailures(MaxLogs) : PollCycle(w, f)
    \/ \E k \in 1..MaxTasks, accepted \in BOOLEAN : send_raw_transaction(k, accepted)
    \/ \E k \in 1..MaxTasks, r \in ReceiptStatuses : get_transaction_receipt(k, r)
    \/ Restart

Spec == Init /\ [][Next]_vars

\* the lease engine, fed with deposit lists of any content
NextLease ==
    \/ \E c \in Clients \cup {NoClient} : add_deposit_request(c)
    \/ process_next
    \/ \E d \in TimeDeltas : AdvanceTime(d)
    \/ \E r \in DepositLists, f \in StatsFailures(MaxBatch) : ReceiveDeposit(r, f)
    \/ Restart

SpecLease == Init /\ [][NextLease]_vars

\* construction and restarts over any table of deposit addresses
NextStartup ==
    \/ \E c \in Clients \cup {NoClient} : add_deposit_request(c)
    \/ process_next
    \/ \E d \in TimeDeltas : AdvanceTime(d)
    \/ Restart

SpecStartup == InitStartup /\ [][NextStartup]_vars

\* scanning, ingestion and sweeping, with no lease requested
NextIngest ==
    \/ \E d \in TimeDeltas : AdvanceTime(d)
    \/ \E tx \in TxIds, a \in PoolSlots : ChainTransfer(tx, a)
    \/ \E w \in SUBSET PoolSlots, f \in StatsFailures(MaxLogs) : PollCycle(w, f)
    \/ \E k \in 1..MaxTasks, accepted \in BOOLEAN : send_raw_transaction(k, accepted)
    \/ \E k \in 1..MaxTasks, r \in ReceiptStatuses : get_transaction_receipt(k, r)
    \/ Restart

SpecIngest == Init /\ [][NextIngest]_vars

\* the table sizes of the scan specification: one batch, two batches
ScanCounts == (MaxScanAddresses - 1)..MaxScanAddresses

\* the position of address a among the addresses F
Rank(a, F) == Cardinality({b \in F : b <= a})

\* the addresses that hold funds when the program starts: none, the last one
\* of the table, all of them
FundedSets(n) == {{}, {n}, 1..n}

\* A program whose pool is its whole table (CONFIG.MAX_DEPOSIT_ADDRESSES =
\* len(recordset)), started with no lease and one Transfer log, each of a
\* transaction of its own, into every address of F.
InitScan ==
    \E n \in ScanCounts, F \in SUBSET (1..MaxScanAddresses) :
        /\ F \in FundedSets(n)
        /\ now = 0
        /\ depositaddresses = Recordset(n)
        /\ deposit_addresses = Recordset(n)
        /\ stacks = [i \in 1..n |-> <<>>]
        /\ queued = {}
        /\ tick_error = FALSE
        /\ cycle_episode = 0
        /\ scan_errors = NoScanErrors
        /\ shutdown_event = FALSE
        /\ awaiting = NoneSuspended
        /\ halted = {}
        /\ nleases = 0
        /\ chain = {[ log_index       |-> Rank(a, F),
                      transaction_id  |-> Rank(a, F),
                      to_address      |-> a,
                      block_timestamp |-> 0,
                      leased          |-> {},
                      amount          |-> AmountOf(Rank(a, F)) ] : a \in F}
        /\ depositlogs = <<>>
        /\ deposits = {}
        /\ credits = <<>>
        /\ confirms = <<>>
        /\ timeouts = <<>>
        /\ sweeps = <<>>
        /\ tasks = <<>>
        /\ restarts = 0

\* the numbers of the batches of a table of MaxScanAddresses rows
ScanBatchNos == 1..BatchNo(MaxScanAddresses)

\* handle_event raises for no log or for one log
DecodeFails == {{}} \cup {{i} : i \in 1..MaxScanAddresses}

\* scan cycles over a chain that does not change; with no lease in a queue
\* no statistics lookup is made
NextScan ==
    \E bf \in SUBSET ScanBatchNos, nf \in SUBSET ScanBatchNos,
       df \in DecodeFails : ScanCycle(bf, nf, df, NoFailure)

SpecScan == InitScan /\ [][NextScan]_vars

\* the loops from start to shutdown
NextShutdown ==
    \/ \E c \in Clients \cup {NoClient} :
          nleases < MaxPipelineLeases /\ add_deposit_request(c)
    \/ \E tx \in TxIds, a \in PoolSlots :
          Cardinality(chain) < MaxPipelineLogs /\ ChainTransfer(tx, a)
    \/ poll_deposit_request_stack
    \/ \E w \in SUBSET PoolSlots, f \in StatsFailures(MaxLogs) : poll_recent_deposits(w, f)
    \/ \E k \in 1..MaxTasks, accepted \in BOOLEAN : send_raw_transaction(k, accepted)
    \/ \E k \in 1..MaxTasks, r \in ReceiptStatuses : get_transaction_receipt(k, r)
    \/ shutdown
    \/ TickHalt
    \/ PollHalt

\* Each loop tests the event again when its pass has ended.  Nothing makes
\* the provider deliver the receipt a transfer() call waits for.
SpecShutdown ==
    Init /\ [][NextShutdown]_vars /\ WF_vars(TickHalt) /\ WF_vars(PollHalt)

\* leases, transfers and polling cycles in which the credit call or the
\* statistics lookup may fail; no sweep is carried out
NextSettle ==
    \/ \E c \in Clients \cup {NoClient} :
          nleases < MaxPipelineLeases /\ add_deposit_request(c)
    \/ process_next
    \/ \E tx \in TxIds, a \in PoolSlots : ChainTransfer(tx, a)
    \/ \E w \in SUBSET PoolSlots, f \in Failures(MaxLogs) : PollCycle(w, f)

SpecSettle == Init /\ [][NextSettle]_vars

\* the lease engine with the tick and the reconciliation suspended at their
\* awaits and resumed in any order
NextInterleave ==
    \/ \E c \in Clients \cup {NoClient} : add_deposit_request(c)
    \/ process_next_call
    \/ \E delivered \in BOOLEAN : process_next_resume(delivered)
    \/ \E d \in TimeDeltas : AdvanceTime(d)
    \/ \E r \in DepositLists : receive_deposit_call(r)
    \/ receive_deposit_resume

SpecInterleave == Init /\ [][NextInterleave]_vars

\* the pipeline without failures of the ledger and without restarts: leases,
\* transfers, polling cycles and sweeps whose receipt may report a failure
NextRetry ==
    \/ \E c \in Clients :
          nleases < MaxPipelineLeases /\ add_deposit_request(c)
    \/ process_next
    \/ \E d \in TimeDeltas : AdvanceTime(d)
    \/ \E tx \in TxIds, a \in PoolSlots :
          Cardinality(chain) < MaxPipelineLogs /\ ChainTransfer(tx, a)
    \/ \E w \in SUBSET PoolSlots : PollCycle(w, NoFailure)
    \/ \E k \in 1..MaxTasks : send_raw_transaction(k, TRUE)
    \/ \E k \in 1..MaxTasks, r \in ReceiptStatuses : get_transaction_receipt(k, r)

SpecRetry == Init /\ [][NextRetry]_vars

\* admissions and the clock beside a tick loop that keeps running:
\* poll_deposit_request_stack calls process_next again after every sleep
NextTick ==
    \/ \E c \in Clients \cup {NoClient} : add_deposit_request(c)
    \/ process_next
    \/ \E d \in TimeDeltas : AdvanceTime(d)

SpecTick == Init /\ [][NextTick]_vars /\ WF_vars(process_next)

\* polling cycles that start a task while the tasks of earlier cycles sleep
\* between two deposits
NextOverlap ==
    \/ \E tx \in TxIds, a \in PoolSlots : ChainTransfer(tx, a)
    \/ \E w \in SUBSET PoolSlots : PollCycleUpTo(w, NoFailure, MaxOverlap)
    \/ \E k \in 1..MaxOverlap, accepted \in BOOLEAN :
          send_raw_transaction(k, accepted)
    \/ \E k \in 1..MaxOverlap, r \in ReceiptStatuses :
          get_transaction_receipt(k, r)

SpecOverlap == Init /\ [][NextOverlap]_vars

\* one sweep after the other, with a provider that may have no receipt
NextSweep ==
    \/ \E tx \in TxIds, a \in PoolSlots : ChainTransfer(tx, a)
    \/ \E w \in SUBSET PoolSlots, f \in StatsFailures(MaxLogs) : PollCycle(w, f)
    \/ \E k \in 1..MaxTasks, accepted \in BOOLEAN : send_raw_transaction(k, accepted)
    \/ \E k \in 1..MaxTasks : receipt_not_found(k)
    \/ \E k \in 1..MaxTasks, r \in ReceiptStatuses : get_transaction_receipt(k, r)

SpecSweep == Init /\ [][NextSweep]_vars

\* ------------------------------------------------------------------------
\* Properties
\* ------------------------------------------------------------------------
\* the deposit requests of all queues
AllRequests(stks) ==
    UNION {{stks[a][i] : i \in 1..Len(stks[a])} : a \in PoolSlots}

\* C1: for every tx_id at most one credit call and at most one deposit
\* confirmation are issued, and exactly one of each once the tx_id was matched
\* to a lease (matched deposits are recorded in table deposits).
IdempotentCrediting ==
    \A tx \in TxIds :
        LET nc == Count(credits, LAMBDA c : c.payload.refid = tx)
            nn == Count(confirms, LAMBDA n : n.refid = tx)
        IN  /\ nc <= 1
            /\ nn <= 1
            /\ tx \in deposits => nc = 1 /\ nn = 1

\* C2: a credit call is issued for an event only if, when the call is made,
\* the queue of the event's to_address holds a notified lease whose window
\* contains the event's block_timestamp.
UnmatchedEventIsolation ==
    [][\A k \in (Len(credits) + 1)..Len(credits') :
          \E l \in chain :
              /\ l.transaction_id = credits'[k].payload.refid
              /\ l.to_address = credits'[k].payload.deposit_address
              /\ \E r \in AllRequests(stacks) :
                    /\ r.deposit_address = l.to_address
                    /\ r.sent_to_client
                    /\ r.etd <= l.block_timestamp
                    /\ l.block_timestamp <= r.eta]_vars

\* C3: no queue holds two leases that are both notified and unexpired.
AtMostOneActiveLease ==
    \A a \in PoolSlots :
        Cardinality({i \in 1..Len(stacks[a]) :
            stacks[a][i].sent_to_client /\ now <= stacks[a][i].eta}) <= 1

\* C3 witness: a notified, unexpired lease with another lease queued behind it
ActiveLeaseWithQueue ==
    \E a \in PoolSlots :
        /\ Len(stacks[a]) >= 2
        /\ stacks[a][1].sent_to_client
        /\ now <= stacks[a][1].eta
        /\ stacks[a][2].etd <= now + DEPOSIT_ADDR_VALIDITY + DEPOSIT_ADDR_VALIDITY_BUFFER

\* C4: a lease admitted into a non-empty queue starts one second after the
\* window_end of the lease that was at the tail.
FifoFairness ==
    [][\A a \in PoolSlots :
          (Len(stacks'[a]) = Len(stacks[a]) + 1 /\ Len(stacks[a]) > 0)
          => stacks'[a][Len(stacks'[a])].etd = stacks[a][Len(stacks[a])].eta + 1]_vars

\* C4 witness: a lease admitted behind another one that is still in the queue,
\* its window not yet open
LeaseQueuedBehindTail ==
    \E a \in PoolSlots :
        /\ Len(stacks[a]) >= 2
        /\ stacks[a][2].id > stacks[a][1].id
        /\ ~stacks[a][2].sent_to_client
        /\ stacks[a][2].etd > now

\* C5: every lease has window_end = window_start + validity + buffer.
WindowLength ==
    \A r \in AllRequests(stacks) :
        r.eta = r.etd + DEPOSIT_ADDR_VALIDITY + DEPOSIT_ADDR_VALIDITY_BUFFER

\* C6: a tick that finds a head lease with now >= window_end removes it and
\* emits its timeout message; no lease gets more than one timeout message.
ExpiryCorrectness ==
    [][process_next =>
          /\ \A a \in PoolSlots :
                (Len(stacks[a]) > 0 /\ now >= stacks[a][1].eta)
                => /\ \A r \in AllRequests(stacks') : r.id # stacks[a][1].id
                   /\ Count(timeouts', LAMBDA m : m.id = stacks[a][1].id) = 1
          /\ \A n \in 1..nleases : Count(timeouts', LAMBDA m : m.id = n) <= 1]_vars

\* C7: in a polling cycle a pending, unprocessed event is credited to a lease
\* if and only if the lease is on the event's to_address, is notified and its
\* window contains the event's block_timestamp.
MatchRule ==
    [][Len(tasks') = Len(tasks) + 1 =>
          \A r \in AllRequests(stacks) :
          \A n \in 1..Len(tasks'[Len(tasks')].deposits) :
              LET e == tasks'[Len(tasks')].deposits[n]
              IN  e.refid \notin deposits =>
                  ( (\E k \in (Len(credits) + 1)..Len(credits') :
                        /\ credits'[k].request.id = r.id
                        /\ credits'[k].payload.refid = e.refid)
                    <=> ( /\ r.deposit_address = e.deposit_address
                          /\ r.sent_to_client
                          /\ r.etd <= e.credit_time_timestamp
                          /\ e.credit_time_timestamp <= r.eta ) )]_vars

\* C8: a new lease goes to a queue of minimal length, the one of lowest slot
\* index among those, and carries the pool address of that slot.
SlotSelection ==
    [][\A a \in PoolSlots :
          Len(stacks'[a]) = Len(stacks[a]) + 1
          => /\ \A j \in PoolSlots : Len(stacks[a]) <= Len(stacks[j])
             /\ \A j \in PoolSlots : Len(stacks[j]) = Len(stacks[a]) => a <= j
             /\ stacks'[a][Len(stacks'[a])].deposit_address = a]_vars

\* C8 witness: pool of empty queues, the first client got address 1 and the
\* second client address 2
FirstTwoClientsSpread ==
    /\ restarts = 0
    /\ Len(stacks[1]) = 1 /\ stacks[1][1].id = 1 /\ stacks[1][1].deposit_address = 1
    /\ Len(stacks[2]) = 1 /\ stacks[2][1].id = 2 /\ stacks[2][1].deposit_address = 2

\* C9: once an event that was mined inside the window of the notified lease of
\* its address has been swept (no restart, no reverted sweep, no transfer task
\* left), exactly one credit call was issued for it, for that lease's client,
\* with the event's amount and the configured fee, and exactly one sweep of
\* that amount from that address was broadcast.
EndToEndSettlement ==
    \A l \in chain :
        ( /\ l.leased # {}
          /\ restarts = 0
          /\ tasks = <<>>
          /\ \E i \in 1..Len(depositlogs) :
                depositlogs[i].transaction_id = l.transaction_id
                /\ depositlogs[i].transferred
          /\ \A i \in 1..Len(sweeps) :
                sweeps[i].refid = l.transaction_id => sweeps[i].receipt = "success" )
        => /\ Count(credits, LAMBDA c : c.payload.refid = l.transaction_id) = 1
           /\ \A i \in 1..Len(credits) :
                 credits[i].payload.refid = l.transaction_id
                 => /\ credits[i].request.id \in l.leased
                    /\ credits[i].payload.chat_id = credits[i].request.client
                    /\ credits[i].payload.amount = l.amount
                    /\ credits[i].payload.deposit_fee = DEPOSIT_FEE
           /\ Count(sweeps, LAMBDA w : w.refid = l.transaction_id) = 1
           /\ \A i \in 1..Len(sweeps) :
                 sweeps[i].refid = l.transaction_id
                 => sweeps[i].amount = l.amount /\ sweeps[i].from_address = l.to_address

\* C10: the event log holds one row per transaction_id.
OneRowPerTx ==
    \A i, j \in 1..Len(depositlogs) :
        depositlogs[i].transaction_id = depositlogs[j].transaction_id => i = j

\* C11: a sweep that was broadcast and has no receipt yet is never broadcast
\* a second time, and a polling cycle (the first one after a restart) leaves
\* it with a task that polls the receipt of its tx_hash.
SweepResumption ==
    [][/\ \A i, j \in 1..Len(sweeps') :
             (i < j /\ sweeps'[i].refid = sweeps'[j].refid)
             => sweeps'[i].receipt # "none"
       /\ (\E w \in SUBSET PoolSlots, f \in StatsFailures(MaxLogs) : PollCycle(w, f))
          => \A i \in 1..Len(sweeps') :
                sweeps'[i].receipt = "none"
                => \E k \in 1..Len(tasks') : tasks'[k].tx_hash = i]_vars

\* C12: with a pool size above the number of addresses in the table the
\* constructor ends the process: no queue exists and no lease is ever
\* admitted.  Otherwise there are MAX_DEPOSIT_ADDRESSES queues at all times,
\* empty after construction and bound to the first addresses of the table.
StartupPrecondition ==
    IF MAX_DEPOSIT_ADDRESSES > Len(depositaddresses)
    THEN stacks = <<>> /\ deposit_addresses = <<>> /\ nleases = 0
    ELSE /\ Len(stacks) = MAX_DEPOSIT_ADDRESSES
         /\ deposit_addresses = SubSeq(depositaddresses, 1, MAX_DEPOSIT_ADDRESSES)
         /\ nleases = 0 => \A a \in PoolSlots : stacks[a] = <<>>
         /\ \A a \in PoolSlots : \A i \in 1..Len(stacks[a]) :
                stacks[a][i].deposit_address = depositaddresses[a]

\* C12 witness: the table is one address short and the process, started
\* again, has ended again
StartupFatal ==
    /\ restarts > 0
    /\ Len(depositaddresses) = MAX_DEPOSIT_ADDRESSES - 1
    /\ deposit_addresses = <<>>
    /\ stacks = <<>>

\* C13: a sweep is broadcast, and a row marked transferred, only for an
\* event for which a credit call has been issued.
SweepOnlyAfterReconciliation ==
    [][/\ Len(sweeps') > Len(sweeps)
          => \E c \in 1..Len(credits) :
                credits[c].payload.refid = sweeps'[Len(sweeps')].refid
       /\ \A i \in 1..Len(depositlogs') :
             depositlogs'[i].transferred
             => \E c \in 1..Len(credits') :
                   credits'[c].payload.refid = depositlogs'[i].transaction_id]_vars

\* a tick gets as far as slot a: no slot before it has a faulty head
TickReaches(a) ==
    \A b \in 1..(a - 1) : Len(stacks[b]) = 0 \/ ClientOk(stacks[b][1])

\* C14: a tick that finds a head lease without client or chat_id removes it,
\* issues no message for it and leaves the later queues as they are.
MalformedLeaseHandling ==
    [][process_next =>
          \A a \in PoolSlots :
              (TickReaches(a) /\ Len(stacks[a]) > 0 /\ ~ClientOk(stacks[a][1]))
              => /\ stacks'[a] = Tail(stacks[a])
                 /\ Count(timeouts', LAMBDA m : m.id = stacks[a][1].id)
                      = Count(timeouts, LAMBDA m : m.id = stacks[a][1].id)
                 /\ \A b \in (a + 1)..MAX_DEPOSIT_ADDRESSES :
                        stacks'[b] = stacks[b]]_vars

\* C15: whatever messages Telegram fails to deliver, a tick leaves the queues
\* as it would with every message delivered (head marked notified, expired
\* head popped), and an admission enqueues its lease.
NotificationFailuresKeepProgress ==
    [][/\ process_next =>
             LET st == ProcessStacks(1, [ stacks |-> stacks, timeouts |-> timeouts,
                                          aborted |-> FALSE ], now, {})
             IN  /\ stacks' = st.stacks
                 /\ Len(timeouts') = Len(st.timeouts)
                 /\ \A i \in 1..Len(timeouts') : timeouts'[i].id = st.timeouts[i].id
       /\ nleases' = nleases + 1 =>
             \E a \in PoolSlots :
                 /\ Len(stacks'[a]) = Len(stacks[a]) + 1
                 /\ stacks'[a][Len(stacks'[a])].id = nleases']_vars

\* C15 witness: the timeout message of a lease was not delivered and the lease
\* is gone from its queue, with another lease notified after it
UndeliveredTimeoutPopped ==
    \E i \in 1..Len(timeouts) :
        /\ ~timeouts[i].delivered
        /\ \A r \in AllRequests(stacks) : r.id # timeouts[i].id
        /\ \E r \in AllRequests(stacks) : r.id > timeouts[i].id /\ r.sent_to_client

\* C16: a tick changes nothing but the head of a queue, which it marks notified
\* or removes; it marks an un-notified head (of a client with chat_id)
\* notified if and only if now >= window_start; no step takes the notified
\* flag of a lease back.
TickInspectsOnlyHeads ==
    [][/\ process_next =>
             \A a \in PoolSlots :
                 /\ \/ Len(stacks[a]) > 0 /\ stacks'[a] = Tail(stacks[a])
                    \/ /\ Len(stacks'[a]) = Len(stacks[a])
                       /\ \A i \in 2..Len(stacks[a]) : stacks'[a][i] = stacks[a][i]
                       /\ Len(stacks[a]) > 0
                          => stacks'[a][1] \in
                                {stacks[a][1],
                                 [stacks[a][1] EXCEPT !.sent_to_client = TRUE]}
                 /\ ( /\ Len(stacks[a]) > 0
                      /\ ClientOk(stacks[a][1])
                      /\ ~stacks[a][1].sent_to_client )
                    => ( ( /\ Len(stacks'[a]) > 0
                           /\ stacks'[a][1].id = stacks[a][1].id
                           /\ stacks'[a][1].sent_to_client )
                         <=> now >= stacks[a][1].etd )
       /\ \A r \in AllRequests(stacks) : \A q \in AllRequests(stacks') :
             (r.id = q.id /\ r.sent_to_client) => q.sent_to_client]_vars

\* C17: when a tick pops an expired head, the lease behind it becomes the head
\* and its window_start is reached one second later at most; and no tick
\* passes over an un-notified head (of a client with chat_id) whose
\* window_start has been reached without notifying it.
HandOverAfterExpiry ==
    [][process_next =>
          \A a \in PoolSlots :
              /\ (Len(stacks[a]) >= 2 /\ stacks'[a] = Tail(stacks[a]))
                 => /\ stacks'[a][1] = stacks[a][2]
                    /\ stacks[a][2].etd <= now + 1
              /\ ( /\ Len(stacks[a]) > 0
                   /\ ClientOk(stacks[a][1])
                   /\ ~stacks[a][1].sent_to_client
                   /\ stacks[a][1].etd <= now )
                 => /\ Len(stacks'[a]) > 0
                    /\ stacks'[a][1].sent_to_client]_vars

\* C18: an admission adds one un-notified lease at the end of one queue and
\* leaves every other lease where it was; the queued message is issued for
\* the new lease if and only if its queue was not empty.
AdmissionAppendsAtTail ==
    [][nleases' = nleases + 1 =>
          \E a \in PoolSlots :
              /\ Len(stacks'[a]) = Len(stacks[a]) + 1
              /\ SubSeq(stacks'[a], 1, Len(stacks[a])) = stacks[a]
              /\ stacks'[a][Len(stacks'[a])].id = nleases'
              /\ ~stacks'[a][Len(stacks'[a])].sent_to_client
              /\ \A b \in PoolSlots \ {a} : stacks'[b] = stacks[b]
              /\ queued' \ queued \subseteq {nleases'}
              /\ nleases' \in queued' <=> Len(stacks[a]) > 0]_vars

\* C19: the credit call of a matched event is issued before its tx_id is
\* recorded as processed, and the lease is removed before the client is sent
\* the confirmation.
ReconciliationStepOrder ==
    /\ \A c \in 1..Len(credits) : ~credits[c].processed
    /\ \A n \in 1..Len(confirms) : ~confirms[n].in_queue

\* C20: no lease is credited for more than one event.
LeaseConsumption ==
    \A i, j \in 1..Len(credits) :
        credits[i].request.id = credits[j].request.id => i = j

\* the rows of table depositlogs that carry transaction_id tx
RowsOf(table, tx) ==
    {i \in 1..Len(table) : table[i].transaction_id = tx}

\* C21: an accepted broadcast marks the event's row transferred while the
\* sweep has no receipt yet; a receipt with status success leaves the row
\* transferred; a receipt with another status makes the row pending again,
\* so that get_newdepositlogs returns it to the next cycle.
SweepStatusTransitions ==
    [][\A k \in 1..Len(tasks) :
          LET refid == tasks[k].deposits[1].refid IN
          /\ send_raw_transaction(k, TRUE)
             => /\ sweeps'[Len(sweeps')].receipt = "none"
                /\ RowsOf(depositlogs', refid) # {}
                /\ \A i \in RowsOf(depositlogs', refid) : depositlogs'[i].transferred
          /\ get_transaction_receipt(k, "success")
             => /\ RowsOf(depositlogs', refid) # {}
                /\ \A i \in RowsOf(depositlogs', refid) : depositlogs'[i].transferred
          /\ get_transaction_receipt(k, "reverted")
             => /\ RowsOf(depositlogs', refid) # {}
                /\ \A i \in RowsOf(depositlogs', refid) : ~depositlogs'[i].transferred
                /\ \E n \in 1..Len(get_newdepositlogs(depositlogs')) :
                       get_newdepositlogs(depositlogs')[n].transaction_id = refid]_vars

\* C21 witness: the sweep of an event was reverted and a later cycle swept
\* the event again, this time with success
RevertedSweepRepeated ==
    \E i, j \in 1..Len(sweeps) :
        /\ i < j
        /\ sweeps[i].refid = sweeps[j].refid
        /\ sweeps[i].receipt = "reverted"
        /\ sweeps[j].receipt = "success"
        /\ \A r \in RowsOf(depositlogs, sweeps[i].refid) : depositlogs[r].transferred

\* C22: a broadcast that raises leaves table depositlogs and the list of
\* sweeps as they are and starts no receipt polling; the event is returned by
\* get_newdepositlogs afterwards as it was before.
BroadcastFailureTerminal ==
    [][\A k \in 1..Len(tasks) :
          send_raw_transaction(k, FALSE)
          => /\ depositlogs' = depositlogs
             /\ sweeps' = sweeps
             /\ \A j \in 1..Len(tasks') : tasks'[j].tx_hash = 0
             /\ get_newdepositlogs(depositlogs') = get_newdepositlogs(depositlogs)]_vars

\* C22 witness: the only task there was has ended without a broadcast and the
\* event is still pending
BroadcastFailedStillPending ==
    /\ restarts = 0
    /\ tasks = <<>>
    /\ sweeps = <<>>
    /\ \E i \in 1..Len(depositlogs) : ~depositlogs[i].transferred

\* C23: no more than max_retries receipt requests are made for one sweep
\* transaction.
ReceiptPollingTerminates ==
    \A k \in 1..Len(tasks) : tasks[k].polls <= max_retries

\* the table holds a row for Transfer log l
Ingested(table, l) ==
    \E i \in 1..Len(table) :
        /\ table[i].transaction_id = l.transaction_id
        /\ table[i].to_address = l.to_address

\* C24: in a scan, the events of every batch of fetch_logs whose log query
\* does not fail and whose logs all decode are ingested, whatever happens to
\* the other batches.
ScanBatchIsolation ==
    [][ScanCycle(scan_errors'.balance, scan_errors'.logs, scan_errors'.decode,
                 NoFailure)
       => LET batches == Batches(SortedSeq(ActiveDeposits(scan_errors'.balance)), 1)
          IN  \A b \in 1..Len(batches) :
                  LET batch == {batches[b][i] : i \in 1..Len(batches[b])}
                      logs == {l \in chain : l.to_address \in batch}
                  IN  ( /\ b \notin scan_errors'.logs
                        /\ \A l \in logs : l.log_index \notin scan_errors'.decode )
                      => \A l \in logs : Ingested(depositlogs', l)]_vars

\* C25: a scan cycle in which no request fails puts every pool address into
\* exactly one batch whose balances and logs are queried, and leaves a row in
\* table depositlogs for every Transfer log into a pool address.
ScanCoverage ==
    [][ScanCycle({}, {}, {}, NoFailure) =>
              LET batches == QueriedBatches(depositaddresses,
                                            full_cycle[cycle_episode + 1])
              IN  /\ \A a \in 1..Len(deposit_addresses) :
                        Cardinality({b \in 1..Len(batches) :
                            \E i \in 1..Len(batches[b]) :
                                batches[b][i] = deposit_addresses[a]}) = 1
                  /\ \A l \in chain :
                        (\E a \in 1..Len(deposit_addresses) :
                            deposit_addresses[a] = l.to_address)
                        => Ingested(depositlogs', l)]_vars

\* C26: with the shutdown event set no loop starts a new pass; a loop that
\* returns cancels no transfer that waits for its receipt and stays halted;
\* and once the event is set both loops eventually halt.
GracefulShutdown ==
    /\ [][/\ shutdown_event => ~process_next
          /\ shutdown_event =>
                ~(\E w \in SUBSET PoolSlots, f \in StatsFailures(MaxLogs) : PollCycle(w, f))
          /\ \A k \in 1..Len(tasks) :
                (tasks[k].tx_hash # 0 /\ restarts' = restarts)
                => \/ \E j \in 1..Len(tasks') : tasks'[j] = tasks[k]
                   \/ sweeps'[tasks[k].tx_hash].receipt # "none"
          /\ restarts' = restarts => halted \subseteq halted']_vars
    /\ shutdown_event ~> (halted = {"tick", "poll"})

\* C27: in a polling cycle every unprocessed event of the list that matches a
\* lease of a client with chat_id gets its credit call in that cycle,
\* whatever happens to the other events of the list (events before it that
\* go to the same address or carry the same tx_id are left aside).
PerEventIsolation ==
    [][Len(tasks') = Len(tasks) + 1 =>
          LET list == tasks'[Len(tasks')].deposits IN
          \A n \in 1..Len(list) :
              ( /\ list[n].refid \notin deposits
                /\ \A m \in 1..(n - 1) :
                      /\ list[m].deposit_address # list[n].deposit_address
                      /\ list[m].refid # list[n].refid
                /\ \E r \in AllRequests(stacks) :
                      Matches(r, list[n].deposit_address, now) /\ ClientOk(r) )
              => \E k \in (Len(credits) + 1)..Len(credits') :
                     credits'[k].payload.refid = list[n].refid]_vars

\* C28: every tx_id recorded as processed has had a successful credit call;
\* a failed credit call is followed by no confirmation for its tx_id and
\* leaves its lease in the queue.
NoLostCredit ==
    /\ [](\A tx \in deposits :
              \E k \in 1..Len(credits) :
                  credits[k].payload.refid = tx /\ credits[k].ok)
    /\ [][\A k \in (Len(credits) + 1)..Len(credits') :
              ~credits'[k].ok
              => /\ \A n \in (Len(confirms) + 1)..Len(confirms') :
                       confirms'[n].refid # credits'[k].payload.refid
                 /\ \E r \in AllRequests(stacks') :
                       r.id = credits'[k].request.id]_vars

\* the ids of the leases of all queues
QueuedIds(stks) == {r.id : r \in AllRequests(stks)}

\* C29: with process_next and receive_deposit suspended at their awaits and
\* resumed in any order, a lease that leaves its queue is the lease a credit
\* call was issued for or the lease a timeout message was issued for, and it
\* had been notified.
RemovalTargetsRightLease ==
    [][\A r \in AllRequests(stacks) :
          r.id \notin QueuedIds(stacks')
          => /\ r.sent_to_client
             /\ \/ \E k \in 1..Len(credits') : credits'[k].request.id = r.id
                \/ \E k \in 1..Len(timeouts') : timeouts'[k].id = r.id]_vars

\* C30: no lease has both a credit call issued for it and a timeout message
\* issued for it.
SettledExpiredExclusive ==
    \A k \in 1..Len(credits), n \in 1..Len(timeouts) :
        credits[k].request.id # timeouts[n].id

\* the event a sweep transaction empties the address of
SweptEvent(sweep) ==
    [ refid |-> sweep.refid, from_address |-> sweep.from_address,
      amount |-> sweep.amount ]

\* C31: with the tasks of successive cycles alive at the same time, an event
\* has a second sweep transaction broadcast only after an earlier one of its
\* sweeps was marked failed.
OneSweepPerEvent ==
    \A i \in 1..Len(sweeps), j \in 1..Len(sweeps) :
        (i < j /\ SweptEvent(sweeps[i]) = SweptEvent(sweeps[j]))
        => \E k \in 1..(j - 1) :
               /\ SweptEvent(sweeps[k]) = SweptEvent(sweeps[j])
               /\ sweeps[k].receipt = "reverted"

\* C32: with the tick loop running, every lease in a queue whose window has
\* started is eventually notified or gone, and every lease in a queue whose
\* window has ended is eventually gone from its queue.
LeaseLiveness ==
    \A id \in 1..MaxLeases :
        /\ (\E r \in AllRequests(stacks) : r.id = id /\ r.etd <= now)
               ~> (\A r \in AllRequests(stacks) : r.id = id => r.sent_to_client)
        /\ (\E r \in AllRequests(stacks) : r.id = id /\ r.eta <= now)
               ~> (id \notin QueuedIds(stacks))

\* C33: a call of add_deposit_request either appends exactly one lease to
\* one queue and returns it, or returns no lease and leaves every queue as it
\* was; and no lease without a client object is in a queue after the call.
AdmissionAllOrNothing ==
    [][nleases' = nleases + 1 =>
          LET idx == MinStackIndex(stacks)
              appended == stacks'[idx][Len(stacks'[idx])]
              returned == add_deposit_request_returns(stacks, nleases + 1,
                                                      appended.client, now)
          IN  /\ returned = None => stacks' = stacks
              /\ returned # None =>
                     stacks' = [stacks EXCEPT ![idx] = Append(@, returned)]
              /\ \A r \in AllRequests(stacks') : ClientOk(r)]_vars

\* C34: of two leases in the same queue the one nearer the head has its
\* window_end before the window_start of the one behind it, and the window
\* of every lease starts no later than it ends.
WindowsNeverOverlap ==
    /\ \A a \in PoolSlots :
          \A i \in 1..Len(stacks[a]), j \in 1..Len(stacks[a]) :
              i < j => stacks[a][i].eta < stacks[a][j].etd
    /\ \A r \in AllRequests(stacks) : r.etd <= r.eta

\* C34 witness: two leases in one queue, the head notified by a tick, after
\* a reconciliation has consumed a lease
QueueOfTwoAfterConsumption ==
    \E a \in PoolSlots :
        /\ Len(stacks[a]) >= 2
        /\ stacks[a][1].sent_to_client
        /\ Len(credits) > 0

\* C35: in a polling cycle, a pending event that has a credit call and a
\* sweep marked failed gets no further credit call and no further
\* confirmation, and no lease on its address is removed for it.
SweepRetryNeverRecredits ==
    [][Len(tasks') = Len(tasks) + 1 =>
          LET list == tasks'[Len(tasks')].deposits IN
          \A n \in 1..Len(list) :
              ( /\ \E k \in 1..Len(credits) :
                      credits[k].payload.refid = list[n].refid
                /\ \E i \in 1..Len(sweeps) :
                      /\ sweeps[i].refid = list[n].refid
                      /\ sweeps[i].receipt = "reverted" )
              => /\ \A k \in (Len(credits) + 1)..Len(credits') :
                       credits'[k].payload.refid # list[n].refid
                 /\ \A k \in (Len(confirms) + 1)..Len(confirms') :
                       confirms'[k].refid # list[n].refid
                 /\ \A r \in AllRequests(stacks) :
                       ( /\ r.deposit_address = list[n].deposit_address
                         /\ r.id \notin QueuedIds(stacks') )
                       => \E k \in (Len(credits) + 1)..Len(credits') :
                              /\ credits'[k].request.id = r.id
                              /\ credits'[k].payload.refid # list[n].refid]_vars

\* C35 witness: a credited event whose sweep was marked failed has been
\* handed to a later task, with a notified, unexpired lease on its address
\* still in the queue
ResweptBesideLiveLease ==
    \E t \in 1..Len(tasks), i \in 1..Len(sweeps), k \in 1..Len(credits) :
        /\ tasks[t].deposits[1].refid = sweeps[i].refid
        /\ sweeps[i].receipt = "reverted"
        /\ credits[k].payload.refid = sweeps[i].refid
        /\ \E r \in AllRequests(stacks) :
              /\ r.deposit_address = tasks[t].deposits[1].deposit_address
              /\ r.sent_to_client
              /\ r.etd <= now
              /\ now <= r.eta

====
